---- MODULE Spec2Model ----
(***************************************************************************)
(* A model of flopen's OpenAndLock (src/lib.rs): the open / flock / stat / *)
(* fstat / compare retry loop of open_and_lock, run by several callers     *)
(* against one path of a POSIX file system whose directory entry other     *)
(* processes may unlink, create and replace at any moment.                 *)
(*                                                                         *)
(* A file is an inode number; the path names one inode or none.  An open   *)
(* file description is a record [ino, locked]; flock locks belong to the   *)
(* open file description, so two descriptions of one file conflict even    *)
(* inside one process.  An inode whose last name and last descriptor are   *)
(* gone is free and its number may be given to the next file created.      *)
(***************************************************************************)
EXTENDS Naturals, Sequences, FiniteSets, TLC

\* Bounds of the model.
NProcs == 2
MaxCount == 2

\* metadata(&path) gave Err: no file at the path.
NoFile == 0

Procs == 1..NProcs

\* Inode numbers: enough for every file that can be live at once (one per
\* caller's descriptor and the one at the path) and one more, so that the
\* file system never lacks a number for a new file.
MaxIno == NProcs + 2
Inodes == 1..MaxIno

\* FlockArg values passed by the two trait methods.
LockExclusive == "LockExclusive"
LockExclusiveNonblock == "LockExclusiveNonblock"

\* The two methods of the trait OpenAndLock.
Methods == {"open_and_lock", "try_open_and_lock"}

\* Mutant: both methods pass LockExclusiveNonblock.
FlockArgNonblock(m) == LockExclusiveNonblock

\* Mutant: the two methods pass each other's FlockArg.
FlockArgSwapped(m) ==
    IF m = "open_and_lock" THEN LockExclusiveNonblock ELSE LockExclusive

\* impl OpenAndLock for OpenOptions: the FlockArg each method passes on.
FlockArgOf(m) ==
    IF m = "open_and_lock" THEN LockExclusive ELSE LockExclusiveNonblock

\* OpenOptions: the flags that change what open does to the file system.
OpenConfigs == [create : BOOLEAN, truncate : BOOLEAN]
PlainConfigs == {o \in OpenConfigs : ~o.truncate}
TruncConfigs == {o \in OpenConfigs : o.truncate}

\* What a call gave back: nothing yet, Ok(file), or Err of some kind.
Results == {"none", "Ok", "NotFound", "WouldBlock", "IoError"}

VARIABLES
    path,             \* the inode the path names, or NoFile
    data,             \* the inodes whose file has content
    fdtab,            \* per caller: its open file descriptions, `file` last
    pc,               \* per caller: idle, open, lock, busy, stat, fstat, continue, done
    method,           \* per caller: the trait method it called
    opts,             \* per caller: the OpenOptions of its call
    lock_mode,        \* per caller: the FlockArg of its call
    metadata_at_path, \* per caller: inode given by its last metadata(&path)
    result,           \* per caller: what its call returned
    nOpen,            \* per caller: opens done by its call (saturating)
    nLock,            \* per caller: flock calls completed by its call
    nStat,            \* per caller: path stats done by its call
    touched,          \* per caller: the path's entry changed since its stat
    erased,           \* per caller: an open of its call emptied a file with content
    raced,            \* per caller: its call dropped a stale handle for the file now at the path
    noted             \* per caller: it saw its previous call refused by a holder

vars == <<path, data, fdtab, pc, method, opts, lock_mode, metadata_at_path, result,
          nOpen, nLock, nStat, touched, erased, raced, noted>>

envVars == <<path, data>>
callVars == <<method, opts, lock_mode>>
countVars == <<nOpen, nLock, nStat>>

----------------------------------------------------------------------------
\* Helpers

Bump(n) == IF n < MaxCount THEN n + 1 ELSE n

\* file: the description bound by `let file` in the current iteration.
HasFile(p) == Len(fdtab[p]) > 0
FileOf(p) == fdtab[p][Len(fdtab[p])]

\* The open file descriptions of the system, as <<caller, index>>.
Descs(tab) == UNION {{<<q, k>> : k \in 1..Len(tab[q])} : q \in Procs}

OpenInodes(tab) == {tab[d[1]][d[2]].ino : d \in Descs(tab)}

\* flock's table: the inodes some open file description holds LOCK_EX on.
LockedInodes(tab) ==
    {tab[d[1]][d[2]].ino : d \in {e \in Descs(tab) : tab[e[1]][e[2]].locked}}

\* An inode lives while the path names it or a description is open on it.
Live(pth, tab) == OpenInodes(tab) \cup ({pth} \ {NoFile})
FreeInodes(pth, tab) == Inodes \ Live(pth, tab)

\* The number the file system gives a new file: any free one.  Numbers are
\* only ever compared for equality, so the model takes the lowest.
NewInode(pth, tab) ==
    CHOOSE i \in FreeInodes(pth, tab) : \A j \in FreeInodes(pth, tab) : i <= j

\* The content of a file goes with its inode.
Gc(d, pth, tab) == d \cap Live(pth, tab)

\* Mutant: the handle of a discarded attempt is forgotten, never closed.
DropFileLeak(tab) == tab

\* Dropping `file` closes its descriptor, which releases its flock lock.
DropFile(tab) == SubSeq(tab, 1, Len(tab) - 1)

\* Mutant: flock returns Ok without having taken the lock.
LockFileNoop(tab) == tab

\* `file` after a successful flock(fd, LOCK_EX).
LockFile(tab) == [tab EXCEPT ![Len(tab)].locked = TRUE]

\* Mutant: the lock is taken shared (LOCK_SH), which never conflicts.
ContendedNever(p) == FALSE

\* flock would have to wait: another open file description holds the lock.
Contended(p) == FileOf(p).ino \in LockedInodes(fdtab)

\* Mutants: the comparison never finds a difference; always finds one.
SameFileAlways(at_path, of_file) == TRUE
SameFileNever(at_path, of_file) == FALSE

\* Mutant: the test is inverted, equal identities count as a difference.
SameFileInverted(at_path, of_file) == at_path # of_file

\* The comparison of (dev, ino): one device, so the inode numbers decide.
SameFile(at_path, of_file) == at_path = of_file

\* The path's entry changes: every caller between its stat of the path and
\* the end of its use of the handle has now seen an outdated entry.
Touch ==
    [q \in Procs |-> pc[q] = "fstat" \/ (pc[q] = "done" /\ result[q] = "Ok")]

----------------------------------------------------------------------------
Init ==
    /\ path \in {NoFile, 1}
    /\ data = {}
    /\ fdtab = [p \in Procs |-> <<>>]
    /\ pc = [p \in Procs |-> "idle"]
    /\ method = [p \in Procs |-> "open_and_lock"]
    /\ opts = [p \in Procs |-> [create |-> FALSE, truncate |-> FALSE]]
    /\ lock_mode = [p \in Procs |-> LockExclusive]
    /\ metadata_at_path = [p \in Procs |-> NoFile]
    /\ result = [p \in Procs |-> "none"]
    /\ nOpen = [p \in Procs |-> 0]
    /\ nLock = [p \in Procs |-> 0]
    /\ nStat = [p \in Procs |-> 0]
    /\ touched = [p \in Procs |-> FALSE]
    /\ erased = [p \in Procs |-> FALSE]
    /\ raced = [p \in Procs |-> FALSE]
    /\ noted = [p \in Procs |-> FALSE]

----------------------------------------------------------------------------
\* The caller: OpenOptions::open_and_lock / try_open_and_lock

\* A caller calls one of the two methods, which enters
\* open_and_lock(options, path, lock_mode).
Enter(p, configs) ==
    /\ pc[p] = "idle"
    /\ \E o \in configs, m \in Methods :
        /\ method' = [method EXCEPT ![p] = m]
        /\ opts' = [opts EXCEPT ![p] = o]
        /\ lock_mode' = [lock_mode EXCEPT ![p] = FlockArgOf(m)]
    /\ pc' = [pc EXCEPT ![p] = "open"]
    /\ UNCHANGED <<envVars, fdtab, metadata_at_path, result, countVars, touched, raced,
                   erased, noted>>

\* ... with options that leave the content of an existing file alone,
Call(p) == Enter(p, PlainConfigs)

\* ... with options that truncate the file on open.
CallTrunc(p) == Enter(p, TruncConfigs)

\* The call returns Err(kind): `?` leaves the function and `file` is dropped.
ReturnErr(p, kind, tab) ==
    /\ result' = [result EXCEPT ![p] = kind]
    /\ pc' = [pc EXCEPT ![p] = "done"]
    /\ fdtab' = [fdtab EXCEPT ![p] = tab]

\* Mutant: the loop gives up with an error after MaxCount attempts.
RetryBounded(p) ==
    /\ fdtab' = [fdtab EXCEPT ![p] = DropFile(@)]
    /\ pc' = [pc EXCEPT ![p] = IF nOpen[p] >= MaxCount THEN "done" ELSE "open"]
    /\ result' = [result EXCEPT
                    ![p] = IF nOpen[p] >= MaxCount THEN "IoError" ELSE @]

\* `continue`: the iteration ends, `file` is dropped, the loop opens again.
Retry(p) ==
    /\ fdtab' = [fdtab EXCEPT ![p] = DropFile(@)]
    /\ pc' = [pc EXCEPT ![p] = "open"]
    /\ result' = result

\* Mutant: open creates the missing file whatever the options say.
MayCreateAlways(p) == TRUE

\* options.open creates a missing file only with .create(true).
MayCreate(p) == opts[p].create

\* let file = options.open(&path)?;
Open(p) ==
    /\ pc[p] = "open"
    /\ nOpen' = [nOpen EXCEPT ![p] = Bump(@)]
    /\ \/ /\ path # NoFile
          /\ fdtab' = [fdtab EXCEPT
                         ![p] = Append(@, [ino |-> path, locked |-> FALSE])]
          /\ data' = IF opts[p].truncate THEN data \ {path} ELSE data
          /\ erased' = [erased EXCEPT
                          ![p] = @ \/ (opts[p].truncate /\ path \in data)]
          /\ pc' = [pc EXCEPT ![p] = "lock"]
          /\ UNCHANGED <<path, result, touched, raced, noted>>
       \/ /\ path = NoFile
          /\ MayCreate(p)
          /\ FreeInodes(path, fdtab) # {}
          /\ path' = NewInode(path, fdtab)
          /\ fdtab' = [fdtab EXCEPT
                         ![p] = Append(@, [ino |-> path', locked |-> FALSE])]
          /\ touched' = Touch
          /\ raced' = [q \in Procs |-> FALSE]
          /\ pc' = [pc EXCEPT ![p] = "lock"]
          /\ UNCHANGED <<data, result, erased, noted>>
       \/ /\ path = NoFile
          /\ ~MayCreate(p)
          /\ ReturnErr(p, "NotFound", fdtab[p])
          /\ UNCHANGED <<path, data, touched, raced, erased, noted>>
    /\ UNCHANGED <<callVars, metadata_at_path, nLock, nStat>>

\* options.open fails for a reason of the environment (permissions, I/O).
OpenFail(p) ==
    /\ pc[p] = "open"
    /\ nOpen' = [nOpen EXCEPT ![p] = Bump(@)]
    /\ ReturnErr(p, "IoError", fdtab[p])
    /\ UNCHANGED <<envVars, callVars, erased, noted, metadata_at_path, nLock, nStat, touched, raced>>

\* options.open gives EWOULDBLOCK: the options carry O_NONBLOCK and another
\* process holds a lease on the file.  `?` passes the error on as it is,
\* whichever method was called.
OpenLeased(p) ==
    /\ pc[p] = "open"
    /\ path # NoFile
    /\ nOpen' = [nOpen EXCEPT ![p] = Bump(@)]
    /\ ReturnErr(p, "WouldBlock", fdtab[p])
    /\ UNCHANGED <<envVars, callVars, erased, noted, metadata_at_path, nLock, nStat,
                   touched, raced>>

\* options.open gives ENOENT although the options say create: the directory
\* of the path is gone.
OpenNoDir(p) ==
    /\ pc[p] = "open"
    /\ path = NoFile
    /\ opts[p].create
    /\ nOpen' = [nOpen EXCEPT ![p] = Bump(@)]
    /\ ReturnErr(p, "NotFound", fdtab[p])
    /\ UNCHANGED <<envVars, callVars, erased, noted, metadata_at_path, nLock, nStat,
                   touched, raced>>

\* Mutant: a lock held elsewhere is taken for a race and the loop retries.
FlockRetryOnBusy(p) ==
    /\ pc[p] = "lock"
    /\ \/ /\ ~Contended(p)
          /\ fdtab' = [fdtab EXCEPT ![p] = LockFile(@)]
          /\ pc' = [pc EXCEPT ![p] = "stat"]
          /\ UNCHANGED <<result, data>>
       \/ /\ Contended(p)
          /\ lock_mode[p] = LockExclusiveNonblock
          /\ Retry(p)
          /\ data' = Gc(data, path, fdtab')
    /\ nLock' = [nLock EXCEPT ![p] = Bump(@)]
    /\ UNCHANGED <<path, callVars, erased, noted, metadata_at_path, nOpen, nStat, touched, raced>>

\* flock(file.as_raw_fd(), lock_mode): the system call.  LOCK_EX waits
\* while the lock is held; LOCK_EX | LOCK_NB gives EWOULDBLOCK, with `file`
\* still open.
Flock(p) ==
    /\ pc[p] = "lock"
    /\ \/ /\ ~Contended(p)
          /\ fdtab' = [fdtab EXCEPT ![p] = LockFile(@)]
          /\ pc' = [pc EXCEPT ![p] = "stat"]
       \/ /\ Contended(p)
          /\ lock_mode[p] = LockExclusiveNonblock
          /\ pc' = [pc EXCEPT ![p] = "busy"]
          /\ UNCHANGED fdtab
    /\ nLock' = [nLock EXCEPT ![p] = Bump(@)]
    /\ UNCHANGED <<result, data>>
    /\ UNCHANGED <<path, callVars, erased, noted, metadata_at_path, nOpen, nStat, touched, raced>>

\* flock(...)? after EWOULDBLOCK: the error leaves the function, `file` is
\* dropped on the way out and the caller gets Err(WouldBlock).
ReturnWouldBlock(p) ==
    /\ pc[p] = "busy"
    /\ ReturnErr(p, "WouldBlock", DropFile(fdtab[p]))
    /\ data' = Gc(data, path, fdtab')
    /\ UNCHANGED <<path, callVars, erased, noted, metadata_at_path, countVars,
                   touched, raced>>

\* flock fails for another reason (EINTR, ENOLCK).
FlockFail(p) ==
    /\ pc[p] = "lock"
    /\ ReturnErr(p, "IoError", DropFile(fdtab[p]))
    /\ data' = Gc(data, path, fdtab')
    /\ nLock' = [nLock EXCEPT ![p] = Bump(@)]
    /\ UNCHANGED <<path, callVars, erased, noted, metadata_at_path, nOpen, nStat, touched, raced>>

\* Mutant: metadata(&path)? , a missing path ends the call with the error.
StatPathStrict(p) ==
    /\ pc[p] = "stat"
    /\ touched' = [touched EXCEPT ![p] = FALSE]
    /\ nStat' = [nStat EXCEPT ![p] = Bump(@)]
    /\ \/ /\ path # NoFile
          /\ metadata_at_path' = [metadata_at_path EXCEPT ![p] = path]
          /\ pc' = [pc EXCEPT ![p] = "fstat"]
          /\ UNCHANGED <<fdtab, result>>
       \/ /\ metadata_at_path' = [metadata_at_path EXCEPT ![p] = NoFile]
          /\ ReturnErr(p, IF path = NoFile THEN "NotFound" ELSE "IoError",
                       DropFile(fdtab[p]))
    /\ data' = Gc(data, path, fdtab')
    /\ UNCHANGED <<path, callVars, erased, noted, raced, nOpen, nLock>>

\* Mutant: with LockExclusiveNonblock a missing path ends the call with the
\* error instead of starting another attempt.
StatPathTryFails(p) ==
    /\ pc[p] = "stat"
    /\ touched' = [touched EXCEPT ![p] = FALSE]
    /\ nStat' = [nStat EXCEPT ![p] = Bump(@)]
    /\ \/ /\ path # NoFile
          /\ metadata_at_path' = [metadata_at_path EXCEPT ![p] = path]
          /\ pc' = [pc EXCEPT ![p] = "fstat"]
          /\ UNCHANGED <<fdtab, result>>
       \/ /\ metadata_at_path' = [metadata_at_path EXCEPT ![p] = NoFile]
          /\ IF lock_mode[p] = LockExclusiveNonblock
             THEN ReturnErr(p, IF path = NoFile THEN "NotFound" ELSE "IoError",
                            DropFile(fdtab[p]))
             ELSE /\ pc' = [pc EXCEPT ![p] = "continue"]
                  /\ UNCHANGED <<fdtab, result>>
    /\ data' = Gc(data, path, fdtab')
    /\ UNCHANGED <<path, callVars, erased, noted, raced, nOpen, nLock>>

\* if let Ok(metadata_at_path) = metadata(&path) { ... } else { continue; }
\* The stat gives Ok only when a file is at the path; it gives Err when none
\* is (ENOENT) and may give Err for any other reason (EACCES, EIO, ELOOP)
\* with a file there.  Every Err takes the else branch, with `file` still
\* open and locked.
StatPath(p) ==
    /\ pc[p] = "stat"
    /\ touched' = [touched EXCEPT ![p] = FALSE]
    /\ nStat' = [nStat EXCEPT ![p] = Bump(@)]
    /\ \/ /\ path # NoFile
          /\ metadata_at_path' = [metadata_at_path EXCEPT ![p] = path]
          /\ pc' = [pc EXCEPT ![p] = "fstat"]
       \/ /\ metadata_at_path' = [metadata_at_path EXCEPT ![p] = NoFile]
          /\ pc' = [pc EXCEPT ![p] = "continue"]
    /\ UNCHANGED <<envVars, fdtab, result, callVars, erased, noted, raced, nOpen,
                   nLock>>

\* else { continue; } after the stat of the path gave Err: the descriptor
\* is closed, which releases the lock, and the loop opens again.  (After
\* the comparison the close is part of FstatCompare: neither the fstat of
\* the descriptor nor the comparison reads anything others can change.)
Continue(p) ==
    /\ pc[p] = "continue"
    /\ Retry(p)
    /\ data' = Gc(data, path, fdtab')
    /\ UNCHANGED <<path, callVars, erased, noted, metadata_at_path, countVars, touched, raced>>

\* let file_metadata = file.metadata()?; compare dev and ino; continue or
\* return Ok(file).  The two metadata values live for one iteration only.
FstatCompare(p) ==
    /\ pc[p] = "fstat"
    /\ IF SameFile(metadata_at_path[p], FileOf(p).ino)
       THEN /\ result' = [result EXCEPT ![p] = "Ok"]
            /\ pc' = [pc EXCEPT ![p] = "done"]
            /\ UNCHANGED <<fdtab, metadata_at_path, touched, raced>>
       ELSE /\ Retry(p)
            /\ metadata_at_path' = [metadata_at_path EXCEPT ![p] = NoFile]
            /\ touched' = [touched EXCEPT ![p] = FALSE]
            /\ raced' = [raced EXCEPT ![p] = ~touched[p]]
    /\ data' = Gc(data, path, fdtab')
    /\ UNCHANGED <<path, callVars, erased, noted, countVars>>

\* file.metadata() fails (fstat gives an I/O error).
FstatFail(p) ==
    /\ pc[p] = "fstat"
    /\ ReturnErr(p, "IoError", DropFile(fdtab[p]))
    /\ metadata_at_path' = [metadata_at_path EXCEPT ![p] = NoFile]
    /\ touched' = [touched EXCEPT ![p] = FALSE]
    /\ data' = Gc(data, path, fdtab')
    /\ UNCHANGED <<path, callVars, erased, noted, raced, countVars>>

\* What the call returned goes out of scope: the File is dropped (which
\* closes it and releases the lock), or the error.
Drop(p, seen) ==
    /\ pc[p] = "done"
    /\ pc' = [pc EXCEPT ![p] = "idle"]
    /\ fdtab' = [fdtab EXCEPT ![p] = <<>>]
    /\ data' = Gc(data, path, fdtab')
    /\ method' = [method EXCEPT ![p] = "open_and_lock"]
    /\ opts' = [opts EXCEPT ![p] = [create |-> FALSE, truncate |-> FALSE]]
    /\ lock_mode' = [lock_mode EXCEPT ![p] = LockExclusive]
    /\ metadata_at_path' = [metadata_at_path EXCEPT ![p] = NoFile]
    /\ result' = [result EXCEPT ![p] = "none"]
    /\ nOpen' = [nOpen EXCEPT ![p] = 0]
    /\ nLock' = [nLock EXCEPT ![p] = 0]
    /\ nStat' = [nStat EXCEPT ![p] = 0]
    /\ touched' = [touched EXCEPT ![p] = FALSE]
    /\ erased' = [erased EXCEPT ![p] = FALSE]
    /\ raced' = [raced EXCEPT ![p] = FALSE]
    /\ noted' = [noted EXCEPT ![p] = seen]
    /\ UNCHANGED path

\* The caller is done with what the call returned, and may call again.
Finish(p) == Drop(p, FALSE)

\* The caller of tests::try_lock_locked: its try_open_and_lock came back
\* with WouldBlock from its first flock while the other caller still held
\* the handle open_and_lock had returned for the file at the path (opened
\* with create); it checks the error kind and lets the error go.
NoteRefused(p) ==
    /\ result[p] = "WouldBlock"
    /\ method[p] = "try_open_and_lock"
    /\ nOpen[p] = 1 /\ nLock[p] = 1
    /\ \E q \in Procs \ {p} :
        /\ pc[q] = "done" /\ result[q] = "Ok"
        /\ method[q] = "open_and_lock" /\ opts[q].create
        /\ FileOf(q).ino = path
    /\ Drop(p, TRUE)

----------------------------------------------------------------------------
\* The environment: other users of the directory and of the file

\* Some process unlinks the path (advisory locks do not prevent it).
Unlink ==
    /\ path # NoFile
    /\ path' = NoFile
    /\ data' = Gc(data, path', fdtab)
    /\ touched' = Touch
    /\ raced' = [q \in Procs |-> FALSE]
    /\ UNCHANGED <<fdtab, pc, callVars, erased, noted, metadata_at_path, result, countVars>>

\* Some process creates a file at the free path.
Create ==
    /\ path = NoFile
    /\ FreeInodes(path, fdtab) # {}
    /\ path' = NewInode(path, fdtab)
    /\ touched' = Touch
    /\ raced' = [q \in Procs |-> FALSE]
    /\ UNCHANGED <<data, fdtab, pc, callVars, erased, noted, metadata_at_path, result,
                   countVars>>

\* Some process renames another file to the path: over the file there, a
\* new file; over the file there or onto the free path, a file that has
\* another name and that a caller has open (one moved away from the path
\* earlier and now moved back).
Rename ==
    /\ FreeInodes(path, fdtab) # {}
    /\ path' \in (IF path # NoFile THEN {NewInode(path, fdtab)} ELSE {})
                    \cup (OpenInodes(fdtab) \ {path})
    /\ data' = Gc(data, path', fdtab)
    /\ touched' = Touch
    /\ raced' = [q \in Procs |-> FALSE]
    /\ UNCHANGED <<fdtab, pc, callVars, erased, noted, metadata_at_path, result, countVars>>

\* Some process writes to the file at the path.
Write ==
    /\ path # NoFile
    /\ path \notin data
    /\ data' = data \cup {path}
    /\ UNCHANGED <<path, fdtab, pc, callVars, erased, noted, metadata_at_path, result,
                   countVars, touched, raced>>

----------------------------------------------------------------------------
CallerStep(p) ==
    \/ Open(p)
    \/ OpenFail(p)
    \/ OpenLeased(p)
    \/ OpenNoDir(p)
    \/ Flock(p)
    \/ ReturnWouldBlock(p)
    \/ FlockFail(p)
    \/ StatPath(p)
    \/ Continue(p)
    \/ FstatCompare(p)
    \/ FstatFail(p)

\* Callers of the two methods and processes that unlink, create and replace
\* the path; no file has content and no call truncates.
Next ==
    \/ \E p \in Procs : Call(p)
    \/ \E p \in Procs : CallerStep(p)
    \/ \E p \in Procs : Finish(p)
    \/ Unlink
    \/ Create
    \/ Rename

Spec == Init /\ [][Next]_vars

\* The stat of the path when it does not fail on a file that is there.
StatPathSound(p) == StatPath(p) /\ (path # NoFile => pc'[p] = "fstat")

\* A step of a call none of whose system calls fails for a reason of its
\* own: open, flock, the stat of the path and the fstat of the descriptor
\* give what the path, the options and the lock make them give.
SoundStep(p) ==
    \/ Open(p)
    \/ Flock(p)
    \/ ReturnWouldBlock(p)
    \/ StatPathSound(p)
    \/ Continue(p)
    \/ FstatCompare(p)

\* The scheduling the claims about progress assume: a caller that can take
\* its next step takes it (a flock that waits can while the lock is free:
\* nothing is promised to a caller whose lock others keep taking first),
\* and whoever holds a returned handle or an error eventually drops it.
Fairness == \A p \in Procs : WF_vars(SoundStep(p) \/ Finish(p))

\* Callers of the two methods none of whose system calls fails for a reason
\* of its own, under that scheduling, with the processes that unlink,
\* create and replace the path.
SoundNext ==
    \/ \E p \in Procs : Call(p)
    \/ \E p \in Procs : SoundStep(p)
    \/ \E p \in Procs : Finish(p)
    \/ Unlink
    \/ Create
    \/ Rename

FairSpec == Init /\ [][SoundNext]_vars /\ Fairness

\* The sequence of tests::try_lock_locked and what follows it: callers of
\* the two methods on a path nobody unlinks or replaces, a caller refused
\* by a holder noting it.
HandoverNext ==
    \/ \E p \in Procs : Call(p)
    \/ \E p \in Procs : CallerStep(p)
    \/ \E p \in Procs : Finish(p)
    \/ \E p \in Procs : NoteRefused(p)

HandoverSpec == Init /\ [][HandoverNext]_vars

\* Callers with any options against a path whose entry nobody else changes,
\* and processes that write to the file.
ContentNext ==
    \/ \E p \in Procs : Call(p)
    \/ \E p \in Procs : CallTrunc(p)
    \/ \E p \in Procs : CallerStep(p)
    \/ \E p \in Procs : Finish(p)
    \/ Write

ContentSpec == Init /\ [][ContentNext]_vars

\* One caller alone with the path: it calls again and again, with any
\* options, dropping what a call returned before the next; nobody else
\* locks, unlinks or replaces the path, and others write to the file only
\* between two calls.  Its open can fail as any open can.
SoloCaller == CHOOSE p \in Procs : \A q \in Procs : p <= q

WriteBetween == Write /\ \A p \in Procs : pc[p] = "idle"

\* The steps of a call whose flock finds no other handle on the file: all
\* steps of a call but the return that follows flock's EWOULDBLOCK.
SoloStep(p) ==
    \/ Open(p)
    \/ OpenFail(p)
    \/ OpenLeased(p)
    \/ OpenNoDir(p)
    \/ Flock(p)
    \/ FlockFail(p)
    \/ StatPath(p)
    \/ Continue(p)
    \/ FstatCompare(p)
    \/ FstatFail(p)

SoloNext ==
    \/ Call(SoloCaller)
    \/ CallTrunc(SoloCaller)
    \/ SoloStep(SoloCaller)
    \/ Finish(SoloCaller)
    \/ WriteBetween

SoloSpec == Init /\ [][SoloNext]_vars

\* The cleanup of a lock file: a caller unlinks the path while it holds the
\* handle one of the two methods returned for the file now at the path.
UnlinkHeld(p) ==
    /\ pc[p] = "done" /\ result[p] = "Ok"
    /\ FileOf(p).ino = path
    /\ Unlink

\* Callers of the two methods that clean up this way; nobody else unlinks,
\* creates or replaces the path.
CleanupNext ==
    \/ \E p \in Procs : Call(p)
    \/ \E p \in Procs : CallerStep(p)
    \/ \E p \in Procs : Finish(p)
    \/ \E p \in Procs : UnlinkHeld(p)

CleanupSpec == Init /\ [][CleanupNext]_vars

----------------------------------------------------------------------------
\* What the claims speak of

\* The caller takes a step of its call (every step changes its position).
Moved(p) == pc'[p] # pc[p]

InCall(p) == pc[p] \in {"open", "lock", "busy", "stat", "fstat", "continue"}

\* A call ends only by returning: from inside the call a step of the
\* caller leads to the next position of the call or to its end.
EndsByReturning(p) == InCall(p) => (InCall(p)' \/ pc'[p] = "done")

\* The caller holds the handle its call returned.
Holds(p) == pc[p] = "done" /\ result[p] = "Ok"

\* The file the caller opened is locked through a handle of another caller.
LockedByOther(p) ==
    \E q \in Procs \ {p} : \E k \in 1..Len(fdtab[q]) :
        fdtab[q][k].locked /\ fdtab[q][k].ino = fdtab[p][Len(fdtab[p])].ino

\* The stat of the path gave Err.
StatErr(p) == pc[p] = "stat" /\ pc'[p] = "continue"

\* The stat of the path gave Err although a file is at the path.
StatFailed(p) == StatErr(p) /\ path # NoFile

\* The step that follows a stat that gave Err: the handle is closed and the
\* call is back at open, nothing returned.
ContinueStep(p) ==
    (pc[p] = "continue" /\ Moved(p))
        => (pc'[p] = "open" /\ fdtab'[p] = <<>> /\ result'[p] = "none")

\* The caller is inside a call of open_and_lock.
Blocking(p) == InCall(p) /\ method[p] = "open_and_lock"

\* flock(fd, LOCK_EX) gives the lock to another handle while the caller
\* waits for it in its own flock call on the same file.
Overtaken(p) ==
    /\ pc[p] = "lock" /\ method[p] = "open_and_lock"
    /\ \E q \in Procs \ {p} :
        /\ pc[q] = "lock" /\ pc'[q] = "stat"
        /\ FileOf(q).ino = FileOf(p).ino

\* From some point on no waiting caller is passed over for the lock.
NoOvertaking == <>[][\A p \in Procs : ~Overtaken(p)]_vars

\* The path settles and so does the lock: from some point on the entry of
\* the path stays as it is and no waiting caller is passed over.
Settles == <>[][path' = path /\ \A p \in Procs : ~Overtaken(p)]_vars

\* C1: a handle is returned only locked by the attempt that returns it and
\* only after that attempt's stat of the path, made after the lock, succeeded
\* and gave the inode of the handle; a call that ends otherwise has no handle.
C1_OnlyVerifiedHandles ==
    \A p \in Procs :
        /\ result[p] = "Ok" =>
            /\ pc[p] = "done"
            /\ Len(fdtab[p]) = 1
            /\ fdtab[p][1].locked
            /\ metadata_at_path[p] # NoFile
            /\ metadata_at_path[p] = fdtab[p][1].ino
            /\ nStat[p] >= 1
            /\ nStat[p] = nLock[p]
            /\ nLock[p] = nOpen[p]
        /\ (pc[p] = "done" /\ result[p] # "Ok") => fdtab[p] = <<>>

\* C1 witness: a handle returned by the second or a later attempt.
C1_Witness ==
    \E p \in Procs :
        Holds(p) /\ nOpen[p] >= 2 /\ fdtab[p][1].locked
                 /\ metadata_at_path[p] = fdtab[p][1].ino

\* C2 as claimed: in the state right after a call returns a handle, the path
\* names the inode of that handle.
C2_FreshStatAfterReturn ==
    [][\A p \in Procs :
        (pc[p] = "fstat" /\ pc'[p] = "done" /\ result'[p] = "Ok")
            => path' = fdtab'[p][1].ino]_vars

\* C2 amended: while a caller holds a returned handle and the path's entry
\* has not changed since the call's own stat of the path, the path names the
\* inode of that handle (which is the inode that stat gave).
C2_FreshStatUnlessChanged ==
    \A p \in Procs :
        Holds(p) =>
            /\ fdtab[p][1].ino = metadata_at_path[p]
            /\ ~touched[p] => path = fdtab[p][1].ino

\* C2 witness: a handle returned after a retry, the path unchanged since.
C2_Witness ==
    \E p \in Procs :
        Holds(p) /\ ~touched[p] /\ nOpen[p] >= 2 /\ path = fdtab[p][1].ino

\* C3: a try_open_and_lock whose file is locked through another handle
\* gets EWOULDBLOCK from its flock call at once (or the error of a flock that
\* failed for another reason) and then returns WouldBlock: the flock call
\* never waits, and between it and the return there is no stat of the path
\* and no further open; the descriptor is closed on the way out; neither
\* step touches a handle or lock of another caller; on the first attempt
\* that is one open and one flock.  Only a try_open_and_lock whose file was
\* locked through another handle at its flock call gets there.
C3_TryLockedWouldBlock ==
    /\ [][\A p \in Procs :
            /\ (/\ pc[p] = "lock"
                /\ method[p] = "try_open_and_lock"
                /\ LockedByOther(p)
                /\ Moved(p))
               => /\ \/ (pc'[p] = "busy" /\ result'[p] = "none"
                            /\ fdtab'[p] = fdtab[p])
                     \/ (pc'[p] = "done" /\ result'[p] = "IoError"
                            /\ fdtab'[p] = <<>>)
                  /\ nOpen'[p] = nOpen[p]
                  /\ nStat'[p] = nStat[p]
                  /\ nOpen[p] = 1
                        => (nLock[p] = 0 /\ nLock'[p] = 1 /\ nStat'[p] = 0)
                  /\ \A q \in Procs \ {p} : fdtab'[q] = fdtab[q]
            /\ (pc[p] = "busy" /\ Moved(p))
               => /\ pc'[p] = "done"
                  /\ result'[p] = "WouldBlock"
                  /\ fdtab'[p] = <<>>
                  /\ nOpen'[p] = nOpen[p]
                  /\ nLock'[p] = nLock[p]
                  /\ nStat'[p] = nStat[p]
                  /\ \A q \in Procs \ {p} : fdtab'[q] = fdtab[q]
            /\ (pc'[p] = "busy" /\ pc[p] # "busy")
               => /\ pc[p] = "lock"
                  /\ method[p] = "try_open_and_lock"
                  /\ LockedByOther(p)]_vars
    /\ [](\A p \in Procs :
            /\ (pc[p] = "lock" /\ method[p] = "try_open_and_lock")
                => ENABLED Flock(p)
            /\ pc[p] = "busy"
                => /\ method[p] = "try_open_and_lock"
                   /\ result[p] = "none"
                   /\ Len(fdtab[p]) = 1 /\ ~fdtab[p][1].locked
                   /\ ENABLED ReturnWouldBlock(p)
                   /\ nOpen[p] = 1 => (nLock[p] = 1 /\ nStat[p] = 0))

\* C3 witness: a call returned WouldBlock after one open, one flock and no
\* stat, and the holder still holds its handle and lock.
C3_Witness ==
    \E p \in Procs, q \in Procs :
        /\ p # q
        /\ result[p] = "WouldBlock"
        /\ nOpen[p] = 1 /\ nLock[p] = 1 /\ nStat[p] = 0
        /\ Holds(q) /\ fdtab[q][1].locked /\ fdtab[q][1].ino = path

\* A caller that has locked its file and found, at its stat, another file
\* at the path (the path was unlinked and a different file created).
StaleSeen(p) == pc[p] = "fstat" /\ metadata_at_path[p] # fdtab[p][1].ino

\* The part of C4 that no schedule decides: the caller sees the difference
\* at its stat, never returns that handle, closes it and starts again from
\* open; a handle it returns after a retry has the inode the path had at that
\* attempt's stat.
C4_StaleNeverReturned ==
    /\ [][\A p \in Procs :
            /\ (pc[p] = "stat" /\ path # NoFile /\ path # fdtab[p][1].ino
                    /\ Moved(p) /\ ~StatFailed(p))
                => (pc'[p] = "fstat" /\ metadata_at_path'[p] = path)
            /\ StatErr(p) => (fdtab'[p] = fdtab[p] /\ result'[p] = "none")
            /\ ContinueStep(p)
            /\ EndsByReturning(p)
            /\ (StaleSeen(p) /\ Moved(p))
                => /\ fdtab'[p] = <<>>
                   /\ result'[p] \in {"none", "IoError"}
                   /\ result'[p] = "none" => pc'[p] = "open"]_vars
    /\ [](\A p \in Procs :
            (Holds(p) /\ nOpen[p] >= 2)
                => fdtab[p][1].ino = metadata_at_path[p])

\* The call ends while the file for which it dropped a stale handle is still
\* the one at the path.
EndsRaced(p) == raced[p] /\ InCall(p) /\ pc'[p] = "done"

\* C4 as claimed: a caller whose locked file was replaced at the path never
\* returns that handle, closes it and starts again from open; and, the path
\* still naming the file that replaced it, the call ends, and ends only by
\* returning a handle of that file.
C4_StaleRetriedThenReturns ==
    /\ C4_StaleNeverReturned
    /\ [][\A p \in Procs :
            EndsRaced(p)
                => (result'[p] = "Ok" /\ fdtab'[p][1].ino = path)]_vars
    /\ \A p \in Procs : []<>(~(raced[p] /\ InCall(p)))

\* C4 amended: the stale handle is never returned, it is closed and the
\* call starts again from open; while the path still names the file that
\* replaced it, and no system call of the call fails, the call ends only by
\* returning a handle of that file or, for try_open_and_lock, with
\* WouldBlock from a flock that found that file locked; and it does end,
\* provided that from some point on no waiting caller is passed over for
\* the lock.
C4_StaleRetriedReturnsUnlessLocked ==
    /\ C4_StaleNeverReturned
    /\ [][\A p \in Procs :
            EndsRaced(p)
                => \/ (result'[p] = "Ok" /\ fdtab'[p][1].ino = path
                            /\ fdtab'[p][1].locked)
                   \/ (result'[p] = "WouldBlock" /\ pc[p] = "busy"
                            /\ method[p] = "try_open_and_lock"
                            /\ FileOf(p).ino = path)]_vars
    /\ NoOvertaking => \A p \in Procs : []<>(~(raced[p] /\ InCall(p)))

\* C4 witness: a caller holds the handle of the file that replaced, at the
\* path, the one whose stale handle an earlier attempt of the call dropped.
C4_Witness ==
    \E p \in Procs :
        /\ Holds(p) /\ raced[p] /\ nOpen[p] >= 2
        /\ fdtab[p][1].locked
        /\ path = fdtab[p][1].ino

\* The caller waits in flock(fd, LOCK_EX).
Waiting(p) == pc[p] = "lock" /\ method[p] = "open_and_lock"

\* While another handle holds the lock of its file, an open_and_lock stays
\* in its flock call, returning nothing; the call can go on exactly when no
\* other handle holds the lock; no open_and_lock is told EWOULDBLOCK by
\* flock, and the handle one returns is locked and has the inode its stat of
\* the path gave.
C5_WaitsWhileLocked ==
    /\ [][\A p \in Procs :
            (Waiting(p) /\ LockedByOther(p))
                => (pc'[p] = "lock" /\ result'[p] = "none"
                        /\ fdtab'[p] = fdtab[p])]_vars
    /\ [](\A p \in Procs :
            /\ Waiting(p) => (ENABLED Flock(p) <=> ~LockedByOther(p))
            /\ method[p] = "open_and_lock" => pc[p] # "busy"
            /\ (method[p] = "open_and_lock" /\ Holds(p))
                => (fdtab[p][1].locked
                        /\ fdtab[p][1].ino = metadata_at_path[p]))

\* An open_and_lock that has been through a flock call ends.
EndsLocked(p) == Blocking(p) /\ nLock[p] >= 1 /\ pc'[p] = "done"

\* The call ends with NotFound: the path names no file at an open whose
\* options do not create one.
EndsMissing(p) ==
    /\ result'[p] = "NotFound"
    /\ pc[p] = "open" /\ path = NoFile /\ ~opts[p].create

C6_BlockingReturns ==
    \A p \in Procs : (Waiting(p) /\ LockedByOther(p)) ~> Holds(p)

\* C6 amended: under the same scheduling, every open_and_lock returns,
\* provided that from some point on the entry of the path stays as it is
\* and no waiting caller is passed over for the lock; and one that has been
\* through a flock call returns a handle, or NotFound when the path has
\* lost its file and the options do not create one.
C6_BlockingReturnsIfSettled ==
    /\ [][\A p \in Procs :
            /\ EndsLocked(p) => (result'[p] = "Ok" \/ EndsMissing(p))
            /\ Blocking(p) => (Blocking(p)' \/ pc'[p] = "done")]_vars
    /\ Settles => \A p \in Procs : []<>(~Blocking(p))

\* C6 witness: an open_and_lock returned a handle to a file another
\* open_and_lock now waits for.
C6_Witness ==
    \E p \in Procs, q \in Procs :
        /\ p # q
        /\ method[p] = "open_and_lock" /\ Holds(p) /\ nLock[p] >= 1
        /\ method[q] = "open_and_lock" /\ pc[q] = "lock"
        /\ fdtab[q][1].ino = fdtab[p][1].ino
        /\ path = fdtab[p][1].ino

\* C7: a stat of the path that fails, or that gives another inode than the
\* handle's, never ends the call: whatever the options and the method, the
\* handle is closed and the call is back at open with nothing returned (only
\* a failing fstat of the handle can end the call at that point).
C7_RaceNeverSurfaced ==
    [][\A p \in Procs :
        /\ (pc[p] = "stat" /\ Moved(p))
            => /\ result'[p] = "none"
               /\ pc'[p] \in {"continue", "fstat"}
               /\ path = NoFile => pc'[p] = "continue"
        /\ ContinueStep(p)
        /\ (pc[p] = "fstat" /\ metadata_at_path[p] # fdtab[p][1].ino
                /\ Moved(p) /\ result'[p] # "IoError")
            => (result'[p] = "none" /\ pc'[p] = "open" /\ fdtab'[p] = <<>>)]_vars

\* C7 witness: a try_open_and_lock without create, back at open after its
\* stat found no file at the path.
C7_Witness ==
    \E p \in Procs :
        /\ pc[p] = "open" /\ nStat[p] >= 1 /\ result[p] = "none"
        /\ ~opts[p].create /\ method[p] = "try_open_and_lock"
        /\ path = NoFile

\* Every caller but this one is idle: none holds a handle, none is inside
\* a call.
Alone(b) == \A q \in Procs \ {b} : pc[q] = "idle"

\* C8: with nobody replacing the path: while a caller holds a handle that
\* open_and_lock returned, the flock of a try_open_and_lock on the same file
\* gives EWOULDBLOCK (or fails), the call returns WouldBlock, and the holder
\* keeps its handle; when the holder lets its handle go, the file at the
\* path is left unlocked; when no other handle holds the lock, the flock of
\* a try_open_and_lock takes it, the stat then gives the inode of the
\* handle and the comparison returns it, a call starting another attempt
\* only when its stat of the path fails; so the caller that saw its call
\* refused, calling again when the holder is gone and nobody else is there,
\* can only get the lock at its flock, and the handle it returns without a
\* failed stat is that of its first attempt.
C8_HoldTryReleaseTry ==
    /\ [][\A a \in Procs, b \in Procs :
            /\ (/\ a # b
                /\ Holds(a) /\ method[a] = "open_and_lock"
                /\ pc[b] = "lock" /\ method[b] = "try_open_and_lock"
                /\ Moved(b))
               => /\ \/ pc'[b] = "busy" /\ result'[b] = "none"
                     \/ pc'[b] = "done" /\ result'[b] = "IoError"
                  /\ Holds(a)' /\ fdtab'[a] = fdtab[a]
            /\ (a # b /\ pc[b] = "busy" /\ Moved(b))
               => /\ pc'[b] = "done" /\ result'[b] = "WouldBlock"
                  /\ fdtab'[a] = fdtab[a]
            /\ (Holds(a) /\ pc'[a] = "idle")
               => /\ fdtab'[a] = <<>>
                  /\ path \notin LockedInodes(fdtab')
            /\ (/\ pc[b] = "lock" /\ method[b] = "try_open_and_lock"
                /\ ~LockedByOther(b)
                /\ Moved(b) /\ result'[b] # "IoError")
               => (pc'[b] = "stat" /\ fdtab'[b][1].locked)
            /\ (pc[b] = "stat" /\ Moved(b) /\ ~StatFailed(b))
               => (pc'[b] = "fstat" /\ metadata_at_path'[b] = fdtab[b][1].ino)
            /\ (pc[b] = "fstat" /\ Moved(b) /\ result'[b] # "IoError")
               => (pc'[b] = "done" /\ result'[b] = "Ok")
            /\ (pc[b] # "open" /\ pc'[b] = "open")
               => (pc[b] = "idle" \/ pc[b] = "continue")
            /\ (pc[b] # "continue" /\ pc'[b] = "continue")
               => StatFailed(b)]_vars
    /\ [](\A b \in Procs :
            /\ pc[b] = "fstat" => metadata_at_path[b] = fdtab[b][1].ino
            /\ Holds(b) => path = fdtab[b][1].ino
            /\ (/\ noted[b] /\ Alone(b)
                /\ pc[b] = "lock" /\ method[b] = "try_open_and_lock")
               => /\ ENABLED (Flock(b) /\ pc'[b] = "stat")
                  /\ ~ENABLED (Flock(b) /\ pc'[b] = "busy")
            /\ (noted[b] /\ Holds(b) /\ nStat[b] = 1)
               => (nOpen[b] = 1 /\ nLock[b] = 1))

\* C8 witness: the caller whose try_open_and_lock was refused while the
\* other held the handle open_and_lock had returned holds, the other having
\* let go, the handle its next try_open_and_lock returned at the first
\* attempt.
C8_Witness ==
    \E b \in Procs :
        /\ noted[b] /\ Alone(b)
        /\ Holds(b) /\ method[b] = "try_open_and_lock"
        /\ nOpen[b] = 1 /\ nLock[b] = 1 /\ nStat[b] = 1
        /\ fdtab[b][1].locked /\ fdtab[b][1].ino = path

\* C9: an open of a path that names no file, with options without create,
\* ends the call at once with NotFound (or the error of an open that failed
\* for another reason): no further attempt, no file created, no descriptor and
\* no lock.
C9_MissingWithoutCreate ==
    [][\A p \in Procs :
        (pc[p] = "open" /\ path = NoFile /\ ~opts[p].create /\ Moved(p))
            => /\ pc'[p] = "done"
               /\ result'[p] \in {"NotFound", "IoError"}
               /\ path' = NoFile
               /\ fdtab' = fdtab
               /\ fdtab[p] = <<>>
               /\ nLock'[p] = nLock[p]]_vars

\* C9 witness: a first open without create ended the call with NotFound.
C9_Witness ==
    \E p \in Procs :
        /\ pc[p] = "done" /\ result[p] = "NotFound"
        /\ ~opts[p].create /\ path = NoFile
        /\ nOpen[p] = 1 /\ nLock[p] = 0

\* C10: a call owns at most one open descriptor, none when it is about to
\* open (the handle of a discarded attempt is closed first), none when it
\* has returned an error, and none is left when the caller has let go.
C10_NoDescriptorLeak ==
    \A p \in Procs :
        /\ Len(fdtab[p]) <= 1
        /\ pc[p] \in {"idle", "open"} => fdtab[p] = <<>>
        /\ (pc[p] = "done" /\ result[p] # "Ok") => fdtab[p] = <<>>
        /\ Cardinality({q \in Procs : fdtab[q] # <<>> /\ fdtab[q][1].locked
                            /\ fdtab[p] # <<>>
                            /\ fdtab[q][1].ino = fdtab[p][1].ino}) <= 1

\* C10 witness: a caller back at open after a discarded attempt while the
\* other caller holds a lock.
C10_Witness ==
    \E p \in Procs, q \in Procs :
        /\ p # q
        /\ pc[p] = "open" /\ nLock[p] >= 1 /\ fdtab[p] = <<>>
        /\ fdtab[q] # <<>> /\ fdtab[q][1].locked

\* C11: a caller alone with a path nobody else locks, unlinks or replaces,
\* calling again and again with any options: the one open of a call does to
\* the path and to the content what a plain open with these options does
\* (an existing file is opened, emptied only with truncate; a missing file
\* is created empty with create and never without; an open that fails ends
\* the call with the error open gave, NotFound for a missing file without
\* create, nothing opened or changed); no later step changes path or
\* content, waits or gives WouldBlock (flock never finds the lock held); the
\* call goes back to open only when its stat of the path fails, so that a
\* call none of whose system calls fails does one open, one flock and one
\* stat; and the handle a call returns is locked and open on the file at
\* the path.
C11_StableSameAsPlainOpen ==
    /\ [][\A p \in Procs :
            /\ (pc[p] = "open" /\ Moved(p) /\ pc'[p] = "lock")
                => IF path # NoFile
                   THEN /\ path' = path
                        /\ data' = IF opts[p].truncate
                                   THEN data \ {path} ELSE data
                        /\ fdtab'[p] = <<[ino |-> path, locked |-> FALSE]>>
                   ELSE /\ opts[p].create
                        /\ path' # NoFile
                        /\ path' \notin data'
                        /\ data' = data
                        /\ fdtab'[p] = <<[ino |-> path', locked |-> FALSE]>>
            /\ (pc[p] = "open" /\ Moved(p) /\ pc'[p] # "lock")
                => /\ pc'[p] = "done"
                   /\ result'[p] \in {"NotFound", "WouldBlock", "IoError"}
                   /\ path' = path
                   /\ data' = data
                   /\ fdtab'[p] = <<>>
                   /\ nLock'[p] = nLock[p]
            /\ (pc[p] \in {"lock", "stat", "fstat", "continue"} /\ Moved(p))
                => /\ path' = path
                   /\ data' = data
                   /\ pc'[p] = "open" => pc[p] = "continue"
                   /\ pc'[p] = "continue" => StatFailed(p)
                   /\ result'[p] \in {"none", "Ok", "IoError"}
            /\ (pc[p] = "stat" /\ Moved(p) /\ ~StatFailed(p))
                => (pc'[p] = "fstat" /\ metadata_at_path'[p] = FileOf(p).ino)
            /\ (pc[p] = "fstat" /\ Moved(p) /\ result'[p] # "IoError")
                => (pc'[p] = "done" /\ result'[p] = "Ok")]_vars
    /\ [](\A p \in Procs :
            /\ pc[p] = "open"
                => /\ ENABLED (Open(p) /\ pc'[p] = "lock")
                        <=> (path # NoFile \/ opts[p].create)
                   /\ ENABLED (Open(p) /\ result'[p] = "NotFound")
                        <=> (path = NoFile /\ ~opts[p].create)
            /\ pc[p] = "lock" => ENABLED Flock(p)
            /\ pc[p] # "busy"
            /\ result[p] \in {"NotFound", "WouldBlock"}
                => (pc[p] = "done" /\ fdtab[p] = <<>>)
            /\ pc[p] \in {"stat", "fstat", "continue"} => FileOf(p).ino = path
            /\ Holds(p) =>
                /\ nOpen[p] = nLock[p] /\ nLock[p] = nStat[p]
                /\ fdtab[p] = <<[ino |-> path, locked |-> TRUE]>>
                /\ opts[p].truncate => path \notin data)

\* C11 witness: the caller holds the handle of a call without truncate to
\* a file that was written to before the call, its content still there.
C11_Witness ==
    \E p \in Procs :
        /\ Holds(p) /\ nOpen[p] = 1
        /\ opts[p].create /\ ~opts[p].truncate
        /\ path = fdtab[p][1].ino /\ path \in data

\* C12 as claimed: a call gets the result WouldBlock only when it is a
\* try_open_and_lock, only from its flock, and only in a state where the
\* file it has just opened is locked through a handle of another caller;
\* open_and_lock never has that result; and the steps that detect a race
\* (the stat of the path, the comparison) never give it.
C12_WouldBlockOnlyContention ==
    /\ [][\A p \in Procs :
            /\ (result'[p] = "WouldBlock" /\ result[p] # "WouldBlock")
                => /\ pc[p] = "busy"
                   /\ method[p] = "try_open_and_lock"
                   /\ lock_mode[p] = LockExclusiveNonblock
                   /\ HasFile(p)
                   /\ ~FileOf(p).locked
                   /\ LockedByOther(p)
            /\ (pc[p] \in {"open", "stat", "continue", "fstat"} /\ Moved(p))
                => result'[p] # "WouldBlock"]_vars
    /\ [](\A p \in Procs :
            /\ method[p] = "open_and_lock" => result[p] # "WouldBlock"
            /\ lock_mode[p] = LockExclusive => result[p] # "WouldBlock"
            /\ result[p] = "WouldBlock"
                => (pc[p] = "done" /\ fdtab[p] = <<>>))

\* C12 amended: a call gets the result WouldBlock in two ways only.  From
\* its flock: only a try_open_and_lock, and only when the file it had just
\* opened was locked through a handle of another caller when flock was
\* called (the holder may have let go by the time the call returns).  From
\* its open, whichever the method: open itself gives EWOULDBLOCK, before any
\* descriptor or flock call of that attempt.  The flock of an open_and_lock
\* never gives it, and the steps that detect a race (the stat of the path,
\* the comparison, the retry) never give it.
C12_WouldBlockFromFlockOrOpen ==
    /\ [][\A p \in Procs :
            /\ (result'[p] = "WouldBlock" /\ result[p] # "WouldBlock")
                => \/ /\ pc[p] = "busy"
                      /\ method[p] = "try_open_and_lock"
                      /\ lock_mode[p] = LockExclusiveNonblock
                      /\ HasFile(p)
                      /\ ~FileOf(p).locked
                   \/ /\ pc[p] = "open"
                      /\ path # NoFile
                      /\ ~HasFile(p)
                      /\ nLock'[p] = nLock[p]
            /\ (pc'[p] = "busy" /\ pc[p] # "busy")
                => /\ pc[p] = "lock"
                   /\ method[p] = "try_open_and_lock"
                   /\ lock_mode[p] = LockExclusiveNonblock
                   /\ LockedByOther(p)
            /\ (pc[p] \in {"lock", "stat", "continue", "fstat"} /\ Moved(p))
                => result'[p] # "WouldBlock"]_vars
    /\ [](\A p \in Procs :
            /\ pc[p] = "busy" => method[p] = "try_open_and_lock"
            /\ (pc[p] = "lock" /\ lock_mode[p] = LockExclusive)
                => ~ENABLED (Flock(p) /\ pc'[p] = "busy")
            /\ result[p] = "WouldBlock"
                => (pc[p] = "done" /\ fdtab[p] = <<>>))

\* C12 witness: a try_open_and_lock ended with WouldBlock from its one
\* flock call, the file at the path being locked by a caller that is still
\* inside its own call.
C12_Witness ==
    \E p \in Procs, q \in Procs :
        /\ p # q
        /\ result[p] = "WouldBlock" /\ method[p] = "try_open_and_lock"
        /\ nOpen[p] = 1 /\ nLock[p] = 1
        /\ pc[q] \in {"stat", "fstat"}
        /\ FileOf(q).locked /\ FileOf(q).ino = path

\* The call ends in one of the three ways the claim C13 names: an error of
\* the open step, an error of the lock step, or Ok after a comparison that
\* found the same file.
ExitOfThree(p) ==
    \/ pc[p] = "open" /\ result'[p] \in {"NotFound", "WouldBlock", "IoError"}
    \/ pc[p] \in {"lock", "busy"} /\ result'[p] \in {"WouldBlock", "IoError"}
    \/ /\ pc[p] = "fstat" /\ result'[p] = "Ok"
       /\ metadata_at_path[p] = FileOf(p).ino

\* The stat of the path never ends the call, and a race it or the
\* comparison detects sends the call back to open, whatever the number of
\* attempts made so far.
RaceAlwaysRetried(p) ==
    /\ (pc[p] = "stat" /\ Moved(p))
        => /\ pc'[p] \in {"continue", "fstat"}
           /\ path = NoFile => pc'[p] = "continue"
           /\ pc'[p] = "fstat" => metadata_at_path'[p] = path
           /\ result'[p] = "none"
    /\ ContinueStep(p)
    /\ (pc[p] = "fstat" /\ metadata_at_path[p] # FileOf(p).ino
            /\ Moved(p) /\ result'[p] # "IoError")
        => (pc'[p] = "open" /\ result'[p] = "none")

\* C13 as claimed: every end of a call is one of the three exits, and every
\* detected race is retried without bound.
C13_ThreeExits ==
    [][\A p \in Procs :
        /\ (InCall(p) /\ pc'[p] = "done") => ExitOfThree(p)
        /\ RaceAlwaysRetried(p)]_vars

\* C13 amended: every end of a call is one of the three exits or the error
\* of the stat of the held descriptor; the stat of the path never ends the
\* call, and every detected race is retried without bound.
C13_FourExits ==
    [][\A p \in Procs :
        /\ (InCall(p) /\ pc'[p] = "done")
            => \/ ExitOfThree(p)
               \/ pc[p] = "fstat" /\ result'[p] = "IoError"
        /\ (pc'[p] = "done" /\ pc[p] # "done") => InCall(p)
        /\ RaceAlwaysRetried(p)]_vars

\* C13 witness: a call that has made MaxCount attempts or more, each ended
\* by a detected race, is back at open for another one.
C13_Witness ==
    \E p \in Procs :
        /\ pc[p] = "open" /\ result[p] = "none"
        /\ nOpen[p] = MaxCount /\ nLock[p] = MaxCount /\ nStat[p] = MaxCount

\* The algorithm with the method left out: what one step of a call does when
\* the lock is free at its flock, told from the caller's position, its
\* handle and the path alone.
ModeFreeStep(p) ==
    \/ /\ pc[p] = "open"
       /\ \/ /\ pc'[p] = "lock" /\ result'[p] = "none"
             /\ fdtab'[p] = <<[ino |-> path', locked |-> FALSE]>>
             /\ path' # NoFile
             /\ path # NoFile => path' = path
          \/ /\ pc'[p] = "done"
             /\ result'[p] \in {"NotFound", "WouldBlock", "IoError"}
             /\ fdtab'[p] = <<>>
    \/ /\ pc[p] = "lock"
       /\ \/ /\ pc'[p] = "stat" /\ result'[p] = "none"
             /\ fdtab'[p] = <<[ino |-> FileOf(p).ino, locked |-> TRUE]>>
          \/ /\ pc'[p] = "done" /\ result'[p] = "IoError"
             /\ fdtab'[p] = <<>>
    \/ /\ pc[p] = "stat"
       /\ result'[p] = "none"
       /\ fdtab'[p] = fdtab[p]
       /\ \/ pc'[p] = "continue"
          \/ /\ path # NoFile
             /\ pc'[p] = "fstat"
             /\ metadata_at_path'[p] = path
    \/ /\ pc[p] = "continue"
       /\ pc'[p] = "open" /\ result'[p] = "none"
       /\ fdtab'[p] = <<>>
    \/ /\ pc[p] = "fstat"
       /\ \/ /\ pc'[p] = "done" /\ result'[p] = "IoError"
             /\ fdtab'[p] = <<>>
          \/ IF metadata_at_path[p] = FileOf(p).ino
             THEN /\ pc'[p] = "done" /\ result'[p] = "Ok"
                  /\ fdtab'[p] = fdtab[p]
             ELSE /\ pc'[p] = "open" /\ result'[p] = "none"
                  /\ fdtab'[p] = <<>>

\* The lock is free when the caller is about to call flock, and its flock
\* has not found it held.
LockFree(p) ==
    /\ pc[p] = "lock" => ~LockedByOther(p)
    /\ pc[p] # "busy"

\* Two callers, one of each method, at the same step, and the ways on which
\* the step can go: to the next step, back to open, or out of the call.
SameWays(p, q) ==
    \A to \in {"open", "lock", "busy", "stat", "fstat", "continue", "done"} :
        ENABLED (CallerStep(p) /\ pc'[p] = to)
            <=> ENABLED (CallerStep(q) /\ pc'[q] = to)

\* C14: with the lock free at every flock call, a step of a call does the
\* same whichever of the two methods was called: what it does follows from
\* the caller's position, its handle and the path, never from the method;
\* a try_open_and_lock whose stat finds no file, or whose comparison finds
\* another file, starts again from open; and whenever a try_open_and_lock
\* and an open_and_lock stand at the same step (open, flock with the lock
\* free, or the stat of the path), the same ways on are open to both.
C14_SameAlgorithmBothModes ==
    /\ [][\A p \in Procs :
            /\ (InCall(p) /\ Moved(p) /\ LockFree(p)) => ModeFreeStep(p)
            /\ (/\ method[p] = "try_open_and_lock"
                /\ \/ pc[p] = "stat" /\ path = NoFile
                   \/ pc[p] = "continue"
                   \/ pc[p] = "fstat" /\ metadata_at_path[p] # FileOf(p).ino
                /\ Moved(p) /\ result'[p] # "IoError")
                => /\ result'[p] = "none"
                   /\ pc'[p] = IF pc[p] = "stat" THEN "continue" ELSE "open"]_vars
    /\ [](\A p \in Procs, q \in Procs :
            (/\ method[p] = "try_open_and_lock"
             /\ method[q] = "open_and_lock"
             /\ pc[p] = pc[q]
             /\ pc[p] \in {"open", "lock", "stat", "continue"}
             /\ opts[p] = opts[q]
             /\ LockFree(p) /\ LockFree(q))
                => SameWays(p, q))

\* C14 witness: a try_open_and_lock and an open_and_lock, with the same
\* options, both at their stat of the path after a retry, each holding the
\* lock of a file the path no longer names.
C14_Witness ==
    \E p \in Procs, q \in Procs :
        /\ method[p] = "try_open_and_lock" /\ method[q] = "open_and_lock"
        /\ opts[p] = opts[q]
        /\ pc[p] = "stat" /\ pc[q] = "stat"
        /\ nOpen[p] >= 2 /\ nOpen[q] >= 2
        /\ FileOf(p).locked /\ FileOf(q).locked
        /\ path # FileOf(p).ino /\ path # FileOf(q).ino

\* The callers that hold a returned handle not yet closed.
Holders == {p \in Procs : Holds(p)}

\* C15: when the path is reached only through the two methods and nobody
\* unlinks or replaces it, at most one caller at a time holds a returned
\* handle; that handle is locked and open on the file at the path, and no
\* other descriptor holds a lock.
C15_OneHolderCooperating ==
    /\ Cardinality(Holders) <= 1
    /\ \A p \in Holders :
        /\ FileOf(p).locked
        /\ FileOf(p).ino = path
        /\ \A q \in Procs \ {p} : HasFile(q) => ~FileOf(q).locked

\* C15 witness: a caller holds the handle of the file it created, while the
\* other caller, come with create too, waits at flock for the same file.
C15_Witness ==
    \E p \in Procs, q \in Procs :
        /\ p # q
        /\ Holders = {p} /\ opts[p].create
        /\ pc[q] = "lock" /\ opts[q].create
        /\ FileOf(q).ino = FileOf(p).ino /\ FileOf(p).ino = path

\* The holders whose handle is open on the file the path names.
HoldersOfPathFile == {p \in Holders : FileOf(p).ino = path}

\* C16: when the path is unlinked only by a caller holding the returned
\* handle of the file at the path, at most one returned handle not yet closed
\* is open on the file the path names; every returned handle is locked, and
\* no two returned handles are open on the same file.
C16_OneHolderOfPathFile ==
    /\ Cardinality(HoldersOfPathFile) <= 1
    /\ \A p \in Holders : FileOf(p).locked
    /\ \A p \in Holders, q \in Holders :
        p # q => FileOf(p).ino # FileOf(q).ino

\* C16 witness: a caller still holds the handle and the lock of the file it
\* unlinked, and another caller holds the handle of the file now at the path.
C16_Witness ==
    \E p \in Procs, q \in Procs :
        /\ Holds(p) /\ FileOf(p).locked /\ FileOf(p).ino # path
        /\ Holds(q) /\ FileOf(q).locked /\ FileOf(q).ino = path

\* C17, its named case: a try_open_and_lock that ended with WouldBlock has
\* not emptied a file that had content, whatever its options.
C17_WouldBlockLeavesContent ==
    \A p \in Procs : result[p] = "WouldBlock" => ~erased[p]

====
